---- MODULE Spec2Model ----
(***************************************************************************)
(* Cipherpack / elevator: the RSA1 encrypt-then-sign and                   *)
(* check-sign-then-decrypt pipelines of src/src/elevator/Crypto1.cpp and   *)
(* the JNI listener bridge of java/jni/cipherpack/CipherpackListener.cxx.  *)
(*                                                                         *)
(* Bytes are the integers 0..255, files and buffers are sequences of       *)
(* bytes.  The DER encoder/decoder, the signature scheme, the RSA wrap and *)
(* the AEAD are library code (Botan); they are modelled by what the        *)
(* pipelines rely on: DER by its byte layout, the signature and the wrap   *)
(* symbolically (unforgeable, injective), the AEAD as a position keyed     *)
(* stream cipher with a tag over key, nonce, associated data and           *)
(* ciphertext.                                                             *)
(***************************************************************************)
EXTENDS Integers, Sequences, FiniteSets, TLC

(***************************************************************************)
(* Bounds of the model.                                                    *)
(***************************************************************************)
\* longest plaintext of the input file, in bytes
MaxPlainLen == 4
\* longest data_fname of the pipeline specification, in bytes
MaxNameLen == 1

(***************************************************************************)
(* Configured constants (elevator.hpp), scaled down to the model's sizes.  *)
(***************************************************************************)
\* chunk size of the IO driver's buffer
buffer_size == 3
\* nonce length of the AEAD
ChaCha_Nonce_Size == 2
\* "EL": the package magic
package_magic == <<69, 76>>
\* the signing scheme's name, as the bytes put into Header-1
rsa_sign_algo == <<83, 49>>
\* OID registry (Botan::OIDS): the configured algorithms and one other of each kind
OidRsaPadding == <<42, 7>>
OidRsaOtherPadding == <<42, 10>>
OidHash == <<96, 1>>
OidOtherHash == <<43, 26>>
OidAead == <<42, 18>>
OidOtherAead == <<96, 46>>
padding_combo == "RSA/OAEP"
rsa_hash_algo == "SHA-256"
aead_cipher_algo == "ChaCha20Poly1305"

\* a registry that tells the kind of an algorithm only, not which one it is
oid2str_OfKindOnly(oid) ==
    CASE oid \in {OidRsaPadding, OidRsaOtherPadding} -> padding_combo
      [] oid \in {OidHash, OidOtherHash} -> rsa_hash_algo
      [] oid \in {OidAead, OidOtherAead} -> aead_cipher_algo
      [] OTHER -> ""

\* Botan::OIDS::oid2str_or_empty
oid2str_or_empty(oid) ==
    CASE oid = OidRsaPadding -> padding_combo
      [] oid = OidRsaOtherPadding -> "RSA/EMSA3"
      [] oid = OidHash -> rsa_hash_algo
      [] oid = OidOtherHash -> "SHA-160"
      [] oid = OidAead -> aead_cipher_algo
      [] oid = OidOtherAead -> "AES-256/GCM"
      [] OTHER -> ""

\* AEAD_Mode::key_spec().maximum_keylength()
KeyLen == 2
\* AEAD_Mode::tag_size(): the bytes finish() appends (encrypt) or needs (decrypt)
TagSize == 2
\* length of an RSA ciphertext (the modulus size)
RsaLen == 4

(***************************************************************************)
(* Bytes.                                                                  *)
(***************************************************************************)
Byte == 0..255

RECURSIVE Sum(_)
Sum(s) == IF s = <<>> THEN 0 ELSE Head(s) + Sum(Tail(s))

RECURSIVE Pow2(_)
Pow2(k) == IF k = 0 THEN 1 ELSE 2 * Pow2(k - 1)

\* byte b with bit k (0..7) inverted
FlipBit(b, k) == IF (b \div Pow2(k)) % 2 = 1 THEN b - Pow2(k) ELSE b + Pow2(k)

\* file s with bit k of its byte at index i inverted
FlipAt(s, i, k) == [s EXCEPT ![i] = FlipBit(s[i], k)]

\* big-endian value of a byte string
RECURSIVE BEValue(_)
BEValue(s) == IF s = <<>> THEN 0 ELSE BEValue(SubSeq(s, 1, Len(s) - 1)) * 256 + s[Len(s)]

\* s without its leading zero octets
RECURSIVE StripZeros(_)
StripZeros(s) == IF s # <<>> /\ s[1] = 0 THEN StripZeros(Tail(s)) ELSE s

\* a length no buffer or file of the model reaches (2^30); the checker's integers
\* end at 2^31 - 1, so the values of the 32-bit fields saturate here
Huge == 1073741824

\* jau::put_uint32(buffer, 0, v, littleEndian = true); v < 2^31, so (uint32_t)v = v
put_uint32(v) ==
    <<v % 256, (v \div 256) % 256, (v \div 65536) % 256, (v \div 16777216) % 256>>

\* jau::get_uint32(buffer, 0, littleEndian = true), saturated at Huge
get_uint32(b) ==
    IF b[4] >= 64 THEN Huge
    ELSE b[1] + 256 * b[2] + 65536 * b[3] + 16777216 * b[4]

(***************************************************************************)
(* DER encoding (Botan::DER_Encoder).                                      *)
(***************************************************************************)
ASN1_Sequence == 48
ASN1_OctetString == 4
ASN1_Integer == 2
ASN1_ObjectId == 6

\* DER definite length octets
DerLength(n) ==
    IF n < 128 THEN <<n>>
    ELSE IF n < 256 THEN <<129, n>>
    ELSE <<130, n \div 256, n % 256>>

\* one tag-length-value item
DerTLV(tag, val) == <<tag>> \o DerLength(Len(val)) \o val

\* content octets of a non-negative INTEGER (v < 2^15)
DerUInt(v) ==
    IF v < 128 THEN <<v>>
    ELSE IF v < 256 THEN <<0, v>>
    ELSE <<v \div 256, v % 256>>

\* AlgorithmIdentifier(oid, parameters): SEQUENCE { OID, raw parameters }
DerAlgId(oid, params) == DerTLV(ASN1_Sequence, DerTLV(ASN1_ObjectId, oid) \o params)

\* hash_id(rsa_hash_algo, USE_EMPTY_PARAM).BER_encode()
hash_id_BER == DerAlgId(OidHash, <<>>)

\* pk_alg_id("RSA/" + rsa_padding_algo, hash_id.BER_encode())
pk_alg_id_DER == DerAlgId(OidRsaPadding, hash_id_BER)

(***************************************************************************)
(* Header-1 and Header-2 (Crypto1.cpp:92-104, 113-125, 139-142).           *)
(***************************************************************************)
\* the ten fields of Header-1, each DER encoded, in the order of lines 94-103
Header1Fields(size_buffer, fname, payload_version, payload_version_parent, enc_key, nonce_) ==
    << DerTLV(ASN1_OctetString, package_magic),
       DerTLV(ASN1_OctetString, size_buffer),
       DerTLV(ASN1_OctetString, fname),
       DerTLV(ASN1_Integer, DerUInt(payload_version)),
       DerTLV(ASN1_Integer, DerUInt(payload_version_parent)),
       DerTLV(ASN1_OctetString, rsa_sign_algo),
       pk_alg_id_DER,
       DerTLV(ASN1_ObjectId, OidAead),
       DerTLV(ASN1_OctetString, enc_key),
       DerTLV(ASN1_OctetString, nonce_) >>

RECURSIVE Concat(_)
Concat(ss) == IF ss = <<>> THEN <<>> ELSE Head(ss) \o Concat(Tail(ss))

\* the Header-1 SEQUENCE as DER_Encoder builds it in both passes
Header1DER(size_buffer, fname, payload_version, payload_version_parent, enc_key, nonce_) ==
    DerTLV(ASN1_Sequence,
           Concat(Header1Fields(size_buffer, fname, payload_version, payload_version_parent,
                                enc_key, nonce_)))

\* a pass 1 that leaves the size buffer empty instead of four zero octets
Header1Pass1Size_EmptyBuffer(fname, pv, pvp, enc_key, nonce_) ==
    Len(Header1DER(<<>>, fname, pv, pvp, enc_key, nonce_))

\* pass 1: header1_size_buffer(4) is zero filled; header1_size = header_buffer.size()
Header1Pass1Size(fname, pv, pvp, enc_key, nonce_) ==
    Len(Header1DER(<<0, 0, 0, 0>>, fname, pv, pvp, enc_key, nonce_))

\* pass 2: the size put little-endian into header1_size_buffer, encoded again
Header1Pass2(fname, pv, pvp, enc_key, nonce_) ==
    Header1DER(put_uint32(Header1Pass1Size(fname, pv, pvp, enc_key, nonce_)),
               fname, pv, pvp, enc_key, nonce_)

\* Header-2: SEQUENCE { signature OCTET STRING }
Header2DER(sig) == DerTLV(ASN1_Sequence, DerTLV(ASN1_OctetString, sig))

(***************************************************************************)
(* BER decoding (Botan::BER_Decoder).                                      *)
(***************************************************************************)
BadTLV == [ok |-> FALSE, tag |-> 0, val |-> <<>>, rest |-> <<>>]

\* the next object of s: tag, definite length (short or long form), value
ReadTLV(s) ==
    IF Len(s) < 2 THEN BadTLV
    ELSE IF s[2] < 128
         THEN IF Len(s) < 2 + s[2] THEN BadTLV
              ELSE [ok |-> TRUE, tag |-> s[1], val |-> SubSeq(s, 3, 2 + s[2]),
                    rest |-> SubSeq(s, 3 + s[2], Len(s))]
         ELSE LET n == s[2] - 128
              IN  IF n = 0 \/ n > 4 \/ Len(s) < 2 + n THEN BadTLV
                  ELSE LET lb == StripZeros(SubSeq(s, 3, 2 + n))
                           len == IF Len(lb) > 2 THEN Huge ELSE BEValue(lb)
                       IN  IF Len(s) < 2 + n + len THEN BadTLV
                           ELSE [ok |-> TRUE, tag |-> s[1],
                                 val |-> SubSeq(s, 3 + n, 2 + n + len),
                                 rest |-> SubSeq(s, 3 + n + len, Len(s))]

\* decode(x, type) for each tag of tags in turn; the undecoded rest is kept
RECURSIVE DecodeItems(_, _)
DecodeItems(s, tags) ==
    IF tags = <<>> THEN [ok |-> TRUE, vals |-> <<>>, rest |-> s]
    ELSE LET t == ReadTLV(s)
         IN  IF ~t.ok \/ t.tag # Head(tags) THEN [ok |-> FALSE, vals |-> <<>>, rest |-> <<>>]
             ELSE LET r == DecodeItems(t.rest, Tail(tags))
                  IN  [ok |-> r.ok, vals |-> IF r.ok THEN <<t.val>> \o r.vals ELSE <<>>,
                       rest |-> r.rest]

\* start_sequence(): the next object must be a SEQUENCE; decoding goes on inside it
StartSequence(s) ==
    LET t == ReadTLV(s)
    IN  IF t.ok /\ t.tag = ASN1_Sequence THEN t ELSE BadTLV

\* decode(uint64_t&, Integer): empty is 0, negative or wider than 32 bits is an error
UIntOk(val) == val = <<>> \/ (val[1] < 128 /\ Len(StripZeros(val)) <= 4)
UIntValue(val) ==
    LET v == StripZeros(val)
    IN  IF Len(v) = 4 /\ v[1] >= 64 THEN Huge ELSE BEValue(v)

\* decode(OID&): at least two octets, the last one ends a component
OidOk(val) == Len(val) >= 2 /\ val[Len(val)] < 128

\* decode(AlgorithmIdentifier&): SEQUENCE { OID, raw_bytes(parameters) }
DecodeAlgId(val) ==
    LET t == ReadTLV(val)
    IN  IF t.ok /\ t.tag = ASN1_ObjectId /\ OidOk(t.val)
        THEN [ok |-> TRUE, oid |-> t.val, parameters |-> t.rest]
        ELSE [ok |-> FALSE, oid |-> <<>>, parameters |-> <<>>]

\* the tags of the ten Header-1 fields, in the order lines 316-325 decode them
Header1Tags ==
    <<ASN1_OctetString, ASN1_OctetString, ASN1_OctetString, ASN1_Integer, ASN1_Integer,
      ASN1_OctetString, ASN1_Sequence, ASN1_ObjectId, ASN1_OctetString, ASN1_OctetString>>

NoHeader ==
    [ok |-> FALSE, package_magic |-> <<>>, header1_size_buffer |-> <<>>, filename |-> <<>>,
     payload_version |-> 0, payload_version_parent |-> 0, sign_algo |-> <<>>,
     pk_alg_oid |-> <<>>, pk_alg_params |-> <<>>, cipher_algo_oid |-> <<>>,
     encrypted_key |-> <<>>, nonce |-> <<>>]

\* phase A: start_sequence().decode(package_magic).decode(header1_size_buffer) over the stream
SnoopHeader1(input) ==
    LET sq == StartSequence(input)
        d == IF sq.ok THEN DecodeItems(sq.val, <<ASN1_OctetString, ASN1_OctetString>>)
             ELSE [ok |-> FALSE, vals |-> <<>>, rest |-> <<>>]
    IN  IF d.ok THEN [ok |-> TRUE, package_magic |-> d.vals[1], header1_size_buffer |-> d.vals[2]]
        ELSE [ok |-> FALSE, package_magic |-> <<>>, header1_size_buffer |-> <<>>]

\* phase B: all Header-1 fields from header_buffer, closed by end_cons()
DecodeHeader1(buffer) ==
    LET sq == StartSequence(buffer)
        d == IF sq.ok THEN DecodeItems(sq.val, Header1Tags)
             ELSE [ok |-> FALSE, vals |-> <<>>, rest |-> <<>>]
        alg == IF d.ok THEN DecodeAlgId(d.vals[7]) ELSE DecodeAlgId(<<>>)
    IN  IF d.ok /\ d.rest = <<>> /\ UIntOk(d.vals[4]) /\ UIntOk(d.vals[5])
           /\ alg.ok /\ OidOk(d.vals[8])
        THEN [ok |-> TRUE, package_magic |-> d.vals[1], header1_size_buffer |-> d.vals[2],
              filename |-> d.vals[3], payload_version |-> UIntValue(d.vals[4]),
              payload_version_parent |-> UIntValue(d.vals[5]), sign_algo |-> d.vals[6],
              pk_alg_oid |-> alg.oid, pk_alg_params |-> alg.parameters,
              cipher_algo_oid |-> d.vals[8], encrypted_key |-> d.vals[9], nonce |-> d.vals[10]]
        ELSE NoHeader

\* Header-2 from the stream behind Header-1: start_sequence().decode(signature), no end_cons()
DecodeHeader2(stream) ==
    LET sq == StartSequence(stream)
        d == IF sq.ok THEN DecodeItems(sq.val, <<ASN1_OctetString>>)
             ELSE [ok |-> FALSE, vals |-> <<>>, rest |-> <<>>]
    IN  IF d.ok THEN [ok |-> TRUE, signature |-> d.vals[1], consumed |-> Len(stream) - Len(sq.rest)]
        ELSE [ok |-> FALSE, signature |-> <<>>, consumed |-> 0]

\* a phase B that hands the verifier the DER encoding of the fields it decoded
VerifiedImage_Reencoded(input, n) ==
    LET h == DecodeHeader1(SubSeq(input, 1, n))
    IN  IF h.ok
        THEN Header1DER(h.header1_size_buffer, h.filename, h.payload_version,
                        h.payload_version_parent, h.encrypted_key, h.nonce)
        ELSE SubSeq(input, 1, n)

\* input.read(header_buffer.data(), header1_size) from offset 0; verifier.update(header_buffer)
VerifiedImage(input, n) == SubSeq(input, 1, n)

\* a Header-1 with the same fields in another BER encoding: the nonce with its length
\* in the long form, the size field and the outer length following
RecodedHeader1(fname, pv, pvp, enc_key, nonce_) ==
    LET items(size_buffer) ==
            SubSeq(Header1Fields(size_buffer, fname, pv, pvp, enc_key, nonce_), 1, 9)
              \o << <<ASN1_OctetString, 129, Len(nonce_)>> \o nonce_ >>
        size == Len(DerTLV(ASN1_Sequence, Concat(items(<<0, 0, 0, 0>>))))
    IN  DerTLV(ASN1_Sequence, Concat(items(put_uint32(size))))

(***************************************************************************)
(* Keys, RNG, RSA wrap and signature (Botan), symbolically.                *)
(***************************************************************************)
\* the key pairs of the model: the recipient's, the signer's, a stranger's
KeyPairs == {1, 2, 3}

\* rng.random_vec(n): the c-th draw of the system RNG; draws differ from each other
random_vec(c, n) == [i \in 1..n |-> (37 * (c + 1) + i) % 256]

\* PK_Encryptor_EME::encrypt under the public key of pair kp: only that pair's
\* private key recovers the key, the last octet stands for the OAEP padding check
RsaEncrypt(kp, key) == <<kp>> \o key \o <<(Sum(key) + kp) % 256>>

RsaDecryptOk(kp, ct) ==
    /\ Len(ct) = RsaLen
    /\ ct[1] = kp
    /\ ct[RsaLen] = (Sum(SubSeq(ct, 2, RsaLen - 1)) + kp) % 256

\* an unwrap that hands out the embedded octets whatever the private key
decrypt_or_random_Unchecked(kp, ct, expected_keylen, c) == SubSeq(ct, 2, RsaLen - 1)

\* PK_Decryptor_EME::decrypt_or_random(in, length, expected_pt_len, rng): the key
\* on success, else rng.random_vec(expected_pt_len); never an error
decrypt_or_random(kp, ct, expected_keylen, c) ==
    IF RsaDecryptOk(kp, ct) /\ RsaLen - 2 = expected_keylen
    THEN SubSeq(ct, 2, RsaLen - 1)
    ELSE random_vec(c, expected_keylen)

\* a signer that is given Header-1 as pass 1 left it, the size field zero
sign_message_OfPass1(kp, msg) ==
    <<kp>> \o [i \in 1..Len(msg) |->
                 IF i > Len(msg) - Len((StartSequence(msg)).val) + 6
                    /\ i <= Len(msg) - Len((StartSequence(msg)).val) + 10
                 THEN 0 ELSE msg[i]]

\* PK_Signer::sign_message with the private key of pair kp
sign_message(kp, msg) == <<kp>> \o msg

\* a verifier that looks at the signer only, not at the message
check_signature_OfSignerOnly(kp, msg, sig) == sig # <<>> /\ sig[1] = kp

\* a verifier whose result is not looked at
check_signature_Ignored(kp, msg, sig) == TRUE

\* PK_Verifier::update(msg); check_signature(sig) with the public key of pair kp
check_signature(kp, msg, sig) == sig = <<kp>> \o msg

(***************************************************************************)
(* AEAD (Botan::AEAD_Mode, ChaCha20Poly1305): a stream cipher keyed by     *)
(* key and nonce, and a tag over key, nonce, associated data and all the   *)
(* ciphertext.  update() transforms what it is given at once; finish()     *)
(* ends the message.                                                       *)
(***************************************************************************)
NoAead == [key |-> <<>>, ad |-> <<>>, nonce |-> <<>>, pos |-> 0, mac |-> 0,
           started |-> FALSE, finished |-> FALSE]

\* an AEAD started with nothing bound as associated data
AeadStart_NoAssociatedData(key, ad, nonce_) ==
    [key |-> key, ad |-> <<>>, nonce |-> nonce_, pos |-> 0, mac |-> 0,
     started |-> TRUE, finished |-> FALSE]

\* the calls that set an AEAD up, in the order of lines 77-79 and 451-453; the flag
\* of start is whether it took the nonce
AeadSetupCalls(started) ==
    << <<"set_key", TRUE>>, <<"set_associated_data", TRUE>>, <<"start", started>> >>

\* set_key(key); set_associated_data_vec(ad); start(nonce)
AeadStart(key, ad, nonce_) ==
    [key |-> key, ad |-> ad, nonce |-> nonce_, pos |-> 0, mac |-> 0,
     started |-> TRUE, finished |-> FALSE]

KeyStream(a, i) == (7 * Sum(a.key) + 3 * Sum(a.nonce) + 5 * i + 1) % 256

AeadEncBytes(a, data) == [j \in 1..Len(data) |-> (data[j] + KeyStream(a, a.pos + j)) % 256]
AeadDecBytes(a, data) == [j \in 1..Len(data) |-> (data[j] + 256 - KeyStream(a, a.pos + j)) % 256]

\* the AEAD after n more bytes whose ciphertext is ct
AeadAdvance(a, ct) == [a EXCEPT !.pos = a.pos + Len(ct), !.mac = (a.mac + Sum(ct)) % 256]

\* the tag of the message so far
AeadTag(a) ==
    [i \in 1..TagSize |->
        IF i = 1 THEN a.mac
        ELSE IF i = 2 THEN (Sum(a.key) + 3 * Sum(a.nonce) + 5 * Sum(a.ad) + 7 * a.pos) % 256
        ELSE 0]

\* ENCRYPTION update(data): data becomes ciphertext of the same length
EncUpdate(a, data) ==
    LET ct == AeadEncBytes(a, data) IN [aead |-> AeadAdvance(a, ct), data |-> ct]

\* a finish that appends no tag
EncFinish_NoTag(a, data) ==
    LET ct == AeadEncBytes(a, data)
    IN  [aead |-> [AeadAdvance(a, ct) EXCEPT !.finished = TRUE], data |-> ct]

\* ENCRYPTION finish(data): the last ciphertext with the tag appended
EncFinish(a, data) ==
    LET ct == AeadEncBytes(a, data)
        b == AeadAdvance(a, ct)
    IN  [aead |-> [b EXCEPT !.finished = TRUE], data |-> ct \o AeadTag(b)]

\* DECRYPTION update(data): all of data is taken as ciphertext
DecUpdate(a, data) ==
    [aead |-> AeadAdvance(a, data), data |-> AeadDecBytes(a, data)]

\* a finish that takes whatever stands in the place of the tag
DecFinish_AnyTag(a, data) ==
    IF Len(data) < TagSize
    THEN [ok |-> FALSE, aead |-> a, data |-> data]
    ELSE LET ct == SubSeq(data, 1, Len(data) - TagSize)
         IN  [ok |-> TRUE, aead |-> [AeadAdvance(a, ct) EXCEPT !.finished = TRUE],
              data |-> AeadDecBytes(a, ct)]

\* DECRYPTION finish(data): data must end with the tag (minimum_final_size() is
\* tag_size()); throws when data is shorter than a tag or the tag does not match
DecFinish(a, data) ==
    IF Len(data) < TagSize
    THEN [ok |-> FALSE, aead |-> a, data |-> data]
    ELSE LET ct == SubSeq(data, 1, Len(data) - TagSize)
             b == AeadAdvance(a, ct)
         IN  IF SubSeq(data, Len(data) - TagSize + 1, Len(data)) = AeadTag(b)
             THEN [ok |-> TRUE, aead |-> [b EXCEPT !.finished = TRUE],
                   data |-> AeadDecBytes(a, ct)]
             ELSE [ok |-> FALSE, aead |-> b, data |-> data]

\* a consume_data that never finishes the message
AeadCall_AlwaysUpdate(is_final) == "update"

\* consume_data: if( !is_final ) aead->update(data) else aead->finish(data)
AeadCall(is_final) == IF is_final THEN "finish" ELSE "update"

(***************************************************************************)
(* IO driver (IOUtil::read_file, IOUtil::read_stream).                     *)
(***************************************************************************)
\* the bytes of one read into the buffer of buffer_size bytes
NextChunk(input, pos) ==
    SubSeq(input, pos + 1, IF pos + buffer_size < Len(input) THEN pos + buffer_size ELSE Len(input))

\* the read that reaches the end of the input is the one delivered with is_final
ChunkIsFinal(input, pos) == pos + buffer_size >= Len(input)

(***************************************************************************)
(* State.                                                                  *)
(***************************************************************************)
VARIABLES
    fs,                 \* the files: path -> [exists, data, removable]
    op,                 \* "none", "enc" (encryptThenSign_RSA1), "dec" (checkSignThenDecrypt_RSA1)
    pc,                 \* position in the running operation, "done" after its return
    ret,                \* "none" while running, then "true" or "false"
    err,                \* the ERR_PRINT site of a failed run, "" otherwise
    steps,              \* the steps the running operation has executed, in order
    overwrite,          \* the overwrite argument, read by the guard only
    data_fname,         \* encrypt: the name of the input, put into Header-1
    cryptKey,           \* the loaded enc_pub_key / dec_sec_key: its key pair, 0 when not loaded
    signKey,            \* the loaded sign_sec_key / sign_pub_key: its key pair, 0 when not loaded
    rng,                \* draws taken from the system RNG
    aead,               \* the AEAD_Mode object
    header1_size,       \* uint32_t header1_size
    header_buffer,      \* the Header-1 byte image that is signed / verified
    hdr,                \* decrypt: the decoded Header-1 fields
    inPos,              \* bytes consumed from the input
    in_bytes_total,     \* result of read_file / read_stream, -1 on a read failure
    out_bytes_header,   \* uint64_t out_bytes_header
    out_bytes_payload,  \* uint64_t out_bytes_payload
    outFail,            \* outfile.fail()
    tampered,           \* index of the byte of the pack changed on the way, 0 for none
    jcalls,             \* the calls the consumer behind the listener has received
    consumer,           \* how the consumer's callbacks answer
    ncall,              \* the last call of a JNICipherpackListener method, as made in native code
    nret,               \* what that call returned to its native caller
    process,            \* "running", or "terminated" by std::terminate or a crash of the JVM
    lib_calls           \* the calls the running operation made into Botan: <<name, flag>>

vars == <<fs, op, pc, ret, err, steps, overwrite, data_fname, cryptKey, signKey, rng, aead,
          header1_size, header_buffer, hdr, inPos, in_bytes_total, out_bytes_header,
          out_bytes_payload, outFail, tampered, jcalls, consumer, ncall, nret, process,
          lib_calls>>

\* the locals of a run that a step leaves alone, by group
keyVars == <<cryptKey, signKey>>
hdrVars == <<header1_size, header_buffer, hdr>>
cntVars == <<inPos, in_bytes_total, out_bytes_header, out_bytes_payload>>
envVars == <<data_fname, tampered, jcalls, consumer, ncall, nret, process>>

NoFile == [exists |-> FALSE, data |-> <<>>, removable |-> TRUE]
NewFile(bytes) == [exists |-> TRUE, data |-> bytes, removable |-> TRUE]
\* a file found at the output path before the operation: "OLD", deletable or not
OldFile(removable) == [exists |-> TRUE, data |-> <<79, 76, 68>>, removable |-> removable]
PreFiles == {NoFile, OldFile(TRUE), OldFile(FALSE)}

\* a call of a listener method: its name and arguments (those it does not have are
\* FALSE or empty)
Call(method, decrypt_mode, is_header, data, is_final, verified, success) ==
    [method |-> method, decrypt_mode |-> decrypt_mode, is_header |-> is_header,
     data |-> data, is_final |-> is_final, verified |-> verified, success |-> success]

NoCall == Call("none", FALSE, FALSE, <<>>, FALSE, FALSE, FALSE)

\* the consumers: one that lets the operation go on, one that stops it at
\* contentProcessed, one that wants no content, one whose callbacks raise an exception,
\* one that writes into the byte[] it is given
Consumers == {"continue", "abort", "silent", "throws", "mutates"}

\* the inputs of the model
Plain(n) == [i \in 1..n |-> (252 + i) % 256]
Name(n) == [i \in 1..n |-> 97 + (i % 26)]

\* outfilename and the input of the running operation
OutPath == IF op = "enc" THEN "pack" ELSE "out"
InPath == IF op = "enc" THEN "plain" ELSE "pack"

\* the key pairs behind the key files: the recipient's and the signer's
RecipientPair == 1
SignerPair == 2

\* IOUtil::remove(outfilename)
RemoveOk(f) == f.exists /\ f.removable
\* a remove that leaves the file where it is
Removed_Nothing(path) == fs

Removed(path) == [fs EXCEPT ![path] = IF RemoveOk(fs[path]) THEN NoFile ELSE fs[path]]

\* a write that puts the bytes in front of what the file holds
Written_Prepends(path, bytes, wok) ==
    IF outFail \/ ~wok THEN fs ELSE [fs EXCEPT ![path].data = bytes \o fs[path].data]

\* outfile.write(bytes): appends while the stream is good; wok is whether this write works
Written(path, bytes, wok) ==
    IF outFail \/ ~wok THEN fs ELSE [fs EXCEPT ![path].data = fs[path].data \o bytes]

\* return false at the ERR_PRINT site e, with or without IOUtil::remove(outfilename)
ReturnFalse(e, remove) ==
    /\ pc' = "done"
    /\ ret' = "false"
    /\ err' = e
    /\ steps' = Append(steps, pc)
    /\ fs' = IF remove THEN Removed(OutPath) ELSE fs

\* catch (std::exception&) of encryptThenSign_RSA1: the output is removed
EncCaught(e) == ReturnFalse(e, TRUE)

\* catch (std::exception&) of checkSignThenDecrypt_RSA1: the output is removed
DecCaught_KeepsOutput(e) == ReturnFalse(e, FALSE)
DecCaught(e) == ReturnFalse(e, TRUE)

\* a control flow that goes past the payload stream
Goto_PastPayload(next) ==
    /\ pc' = IF next = "payload" THEN "end" ELSE next
    /\ steps' = Append(steps, pc)
    /\ UNCHANGED <<ret, err>>

\* continue with the step next
Goto(next) ==
    /\ pc' = next
    /\ steps' = Append(steps, pc)
    /\ UNCHANGED <<ret, err>>

InitWith(names, plains, consumers) ==
    /\ fs \in {[plain |-> NewFile(p), pack |-> NoFile, out |-> NoFile] : p \in plains}
    /\ data_fname \in names
    /\ op = "none"
    /\ pc = "idle"
    /\ ret = "none"
    /\ err = ""
    /\ steps = <<>>
    /\ overwrite = FALSE
    /\ cryptKey = 0
    /\ signKey = 0
    /\ rng = 0
    /\ aead = NoAead
    /\ header1_size = 0
    /\ header_buffer = <<>>
    /\ hdr = NoHeader
    /\ inPos = 0
    /\ in_bytes_total = 0
    /\ out_bytes_header = 0
    /\ out_bytes_payload = 0
    /\ outFail = FALSE
    /\ tampered = 0
    /\ jcalls = <<>>
    /\ consumer \in consumers
    /\ ncall = NoCall
    /\ nret = "none"
    /\ process = "running"
    /\ lib_calls = <<>>

Init ==
    InitWith({Name(n) : n \in 1..MaxNameLen}, {Plain(n) : n \in 0..MaxPlainLen},
             {"continue", "abort"})

\* the locals as a call finds them
CallLocals ==
    /\ ret' = "none"
    /\ err' = ""
    /\ steps' = <<>>
    /\ cryptKey' = 0
    /\ signKey' = 0
    /\ aead' = NoAead
    /\ header1_size' = 0
    /\ header_buffer' = <<>>
    /\ hdr' = NoHeader
    /\ inPos' = 0
    /\ in_bytes_total' = 0
    /\ out_bytes_header' = 0
    /\ out_bytes_payload' = 0
    /\ outFail' = FALSE
    /\ lib_calls' = <<>>

(***************************************************************************)
(* The overwrite guard and the opening of the output, the same in both     *)
(* operations (Crypto1.cpp:25-40, 214-229).                                *)
(***************************************************************************)
\* a guard that removes an existing output whatever the overwrite argument
Guard_AlwaysOverwrites(opened) ==
    /\ pc = "guard"
    /\ overwrite' = FALSE
    /\ IF fs[OutPath].exists /\ ~RemoveOk(fs[OutPath])
       THEN ReturnFalse("RemoveFailed", FALSE)
       ELSE IF ~opened
       THEN ReturnFalse("OutputOpenError", fs[OutPath].exists)
       ELSE /\ Goto("load_keys")
            /\ fs' = [fs EXCEPT ![OutPath] = NewFile(<<>>)]
    /\ UNCHANGED <<op, lib_calls, rng, aead, outFail>>
    /\ UNCHANGED <<keyVars, hdrVars, cntVars, envVars>>

\* a guard that opens the sink on the file that is there
Guard_OpensOldFile(opened) ==
    /\ pc = "guard"
    /\ overwrite' = FALSE
    /\ IF fs[OutPath].exists /\ ~overwrite
       THEN ReturnFalse("OutputExists", FALSE)
       ELSE IF ~opened
       THEN ReturnFalse("OutputOpenError", FALSE)
       ELSE /\ Goto("load_keys")
            /\ fs' = IF fs[OutPath].exists THEN fs
                     ELSE [fs EXCEPT ![OutPath] = NewFile(<<>>)]
    /\ UNCHANGED <<op, lib_calls, rng, aead, outFail>>
    /\ UNCHANGED <<keyVars, hdrVars, cntVars, envVars>>

Guard(opened) ==
    /\ pc = "guard"
    /\ overwrite' = FALSE
    /\ IF fs[OutPath].exists /\ ~overwrite
       THEN ReturnFalse("OutputExists", FALSE)
       ELSE IF fs[OutPath].exists /\ ~RemoveOk(fs[OutPath])
       THEN ReturnFalse("RemoveFailed", FALSE)
       ELSE IF ~opened
       THEN \* the old file, if any, is removed; no new one is created
            ReturnFalse("OutputOpenError", fs[OutPath].exists)
       ELSE /\ Goto("load_keys")
            /\ fs' = [fs EXCEPT ![OutPath] = NewFile(<<>>)]
    /\ UNCHANGED <<op, lib_calls, rng, aead, outFail>>
    /\ UNCHANGED <<keyVars, hdrVars, cntVars, envVars>>

(***************************************************************************)
(* encryptThenSign_RSA1 (Crypto1.cpp:17-204).                              *)
(***************************************************************************)
\* the call: the output path holds any of PreFiles
EncCall ==
    /\ op = "none"
    /\ \E pre \in PreFiles, ow \in BOOLEAN :
          /\ fs' = [fs EXCEPT !["pack"] = pre]
          /\ overwrite' = ow
    /\ op' = "enc"
    /\ pc' = "guard"
    /\ CallLocals
    /\ UNCHANGED <<rng, envVars>>

EncGuard == op = "enc" /\ \E opened \in BOOLEAN : Guard(opened)

\* lines 47-54: a key that fails to load is a null pointer or an exception
EncLoadKeys ==
    /\ op = "enc"
    /\ pc = "load_keys"
    /\ \E r \in {"ok", "pub_null", "pub_throw", "sec_null", "sec_throw"} :
          CASE r = "ok" ->
                 /\ Goto("aead_init")
                 /\ cryptKey' = RecipientPair
                 /\ signKey' = SignerPair
                 /\ fs' = fs
            [] r \in {"pub_null", "sec_null"} ->
                 /\ ReturnFalse("KeyLoadError", FALSE)
                 /\ UNCHANGED keyVars
            [] OTHER ->
                 /\ EncCaught("Exception")
                 /\ UNCHANGED keyVars
    /\ UNCHANGED <<op, lib_calls, overwrite, rng, aead, outFail, hdrVars, cntVars, envVars>>

\* lines 56-79: the AEAD, its OID, the file key, its wrap, the nonce
EncAeadInit ==
    /\ op = "enc"
    /\ pc = "aead_init"
    /\ \E r \in {"ok", "no_aead", "no_oid"} :
          IF r = "ok"
          THEN LET file_key == random_vec(rng, KeyLen)
                   encrypted_key == RsaEncrypt(cryptKey, file_key)
                   nonce == random_vec(rng + 1, ChaCha_Nonce_Size)
               IN  /\ Goto("header1")
                   /\ aead' = AeadStart(file_key, encrypted_key, nonce)
                   /\ rng' = rng + 2
                   /\ lib_calls' = Append(lib_calls, <<"encrypt", TRUE>>) \o AeadSetupCalls(TRUE)
                   /\ fs' = fs
          ELSE /\ ReturnFalse("CryptoAlgorithmUnavailable", FALSE)
               /\ UNCHANGED <<aead, rng, lib_calls>>
    /\ UNCHANGED <<op, overwrite, outFail, keyVars, hdrVars, cntVars, envVars>>

\* lines 81-129: Header-1 in two passes, written to the output
EncHeader1 ==
    /\ op = "enc"
    /\ pc = "header1"
    /\ \E wok \in BOOLEAN :
          LET h1 == Header1Pass2(data_fname, 1, 0, aead.ad, aead.nonce)
          IN  /\ header1_size' = Header1Pass1Size(data_fname, 1, 0, aead.ad, aead.nonce)
              /\ header_buffer' = h1
              /\ fs' = Written(OutPath, h1, wok)
              /\ outFail' = (outFail \/ ~wok)
              /\ out_bytes_header' = Len(h1)
    /\ Goto("header2")
    /\ UNCHANGED <<op, lib_calls, overwrite, rng, aead, hdr, inPos, in_bytes_total, out_bytes_payload>>
    /\ UNCHANGED <<keyVars, envVars>>

\* a Header-2 step that counts Header-2 alone into out_bytes_header
EncHeader2_CountsHeader2Only ==
    /\ op = "enc"
    /\ pc = "header2"
    /\ \E wok \in BOOLEAN :
          LET h2 == Header2DER(sign_message(signKey, header_buffer))
          IN  /\ header_buffer' = h2
              /\ fs' = Written(OutPath, h2, wok)
              /\ outFail' = (outFail \/ ~wok)
              /\ out_bytes_header' = Len(h2)
    /\ lib_calls' = Append(lib_calls, <<"sign_message", TRUE>>)
    /\ Goto("payload")
    /\ UNCHANGED <<op, overwrite, rng, aead, header1_size, hdr, inPos, in_bytes_total,
                   out_bytes_payload>>
    /\ UNCHANGED <<keyVars, envVars>>

\* lines 131-146: the signature over header_buffer, Header-2 written to the output
EncHeader2 ==
    /\ op = "enc"
    /\ pc = "header2"
    /\ \E wok \in BOOLEAN :
          LET h2 == Header2DER(sign_message(signKey, header_buffer))
          IN  /\ header_buffer' = h2
              /\ fs' = Written(OutPath, h2, wok)
              /\ outFail' = (outFail \/ ~wok)
              /\ out_bytes_header' = out_bytes_header + Len(h2)
    /\ lib_calls' = Append(lib_calls, <<"sign_message", TRUE>>)
    /\ Goto("payload")
    /\ UNCHANGED <<op, overwrite, rng, aead, header1_size, hdr, inPos, in_bytes_total,
                   out_bytes_payload>>
    /\ UNCHANGED <<keyVars, envVars>>

\* lines 157-172: read_file hands one chunk to consume_data; readable is whether
\* the input can be read at all
EncChunk ==
    /\ op = "enc"
    /\ pc = "payload"
    /\ \E readable \in BOOLEAN, wok \in BOOLEAN :
          IF inPos = 0 /\ ~readable
          THEN /\ in_bytes_total' = -1
               /\ Goto("end")
               /\ UNCHANGED <<fs, aead, outFail, inPos, out_bytes_payload, lib_calls>>
          ELSE LET input == fs[InPath].data
                   data == NextChunk(input, inPos)
                   final == ChunkIsFinal(input, inPos)
                   r == IF AeadCall(final) = "finish" THEN EncFinish(aead, data)
                        ELSE EncUpdate(aead, data)
               IN  /\ aead' = r.aead
                   /\ lib_calls' = Append(lib_calls, <<AeadCall(final), final>>)
                   /\ fs' = Written(OutPath, r.data, wok)
                   /\ outFail' = (outFail \/ ~wok)
                   /\ out_bytes_payload' = out_bytes_payload + Len(r.data)
                   /\ inPos' = inPos + Len(data)
                   /\ in_bytes_total' = in_bytes_total + Len(data)
                   /\ Goto(IF final THEN "end" ELSE "payload")
    /\ UNCHANGED <<op, overwrite, rng, out_bytes_header, keyVars, hdrVars, envVars>>

\* lines 174-203: the check of the read and of the output stream, the return
EncEnd ==
    /\ op = "enc"
    /\ pc = "end"
    /\ IF in_bytes_total < 0 \/ outFail
       THEN ReturnFalse("OutputWriteError", TRUE)
       ELSE /\ pc' = "done"
            /\ ret' = "true"
            /\ steps' = Append(steps, pc)
            /\ UNCHANGED <<err, fs>>
    /\ UNCHANGED <<op, lib_calls, overwrite, rng, aead, outFail, keyVars, hdrVars, cntVars, envVars>>

NextEnc == EncCall \/ EncGuard \/ EncLoadKeys \/ EncAeadInit \/ EncHeader1 \/ EncHeader2
              \/ EncChunk \/ EncEnd


(***************************************************************************)
(* The pack on its way from the sender to the receiver: one bit of it may  *)
(* be inverted.                                                            *)
(***************************************************************************)
Tamper ==
    /\ op = "enc"
    /\ pc = "done"
    /\ ret = "true"
    /\ tampered = 0
    /\ \E i \in 1..Len(fs["pack"].data), k \in 0..7 :
          /\ fs' = [fs EXCEPT !["pack"].data = FlipAt(fs["pack"].data, i, k)]
          /\ tampered' = i
    /\ UNCHANGED <<op, pc, ret, err, steps, overwrite, data_fname, rng, aead, outFail, jcalls>>
    /\ UNCHANGED <<consumer, ncall, nret, process, lib_calls>>
    /\ UNCHANGED <<keyVars, hdrVars, cntVars>>

\* the pack rewritten on its way: Header-1 in another encoding of the same fields
Recode ==
    /\ op = "enc"
    /\ pc = "done"
    /\ ret = "true"
    /\ tampered = 0
    /\ fs' = [fs EXCEPT !["pack"].data =
                 RecodedHeader1(data_fname, 1, 0, aead.ad, aead.nonce)
                   \o SubSeq(fs["pack"].data, header1_size + 1, Len(fs["pack"].data))]
    /\ tampered' = -1
    /\ UNCHANGED <<op, pc, ret, err, steps, overwrite, data_fname, rng, aead, outFail, jcalls>>
    /\ UNCHANGED <<consumer, ncall, nret, process, lib_calls>>
    /\ UNCHANGED <<keyVars, hdrVars, cntVars>>

\* Header-1 of a pack made by another sender: the fields v, in the layout and the
\* two passes of lines 92-126, whatever the algorithms v names
OtherHeader1(v) ==
    LET der(size_buffer) ==
            DerTLV(ASN1_Sequence,
                   Concat(<< DerTLV(ASN1_OctetString, package_magic),
                             DerTLV(ASN1_OctetString, size_buffer),
                             DerTLV(ASN1_OctetString, v.fname),
                             DerTLV(ASN1_Integer, DerUInt(1)),
                             DerTLV(ASN1_Integer, DerUInt(0)),
                             DerTLV(ASN1_OctetString, v.sign_algo),
                             DerAlgId(v.pk_oid, DerAlgId(v.hash_oid, v.hash_params)),
                             DerTLV(ASN1_ObjectId, v.cipher_oid),
                             DerTLV(ASN1_OctetString, v.enc_key),
                             DerTLV(ASN1_OctetString, v.nonce) >>))
    IN  der(put_uint32(Len(der(<<0, 0, 0, 0>>))))

\* the fields of the other sender's packs: those this build writes, and each one
\* from another configuration (no file name, another signature scheme or none,
\* another padding, another hash, hash parameters, another cipher, a short nonce)
OtherSenders ==
    LET same == [fname |-> Name(1), sign_algo |-> rsa_sign_algo, pk_oid |-> OidRsaPadding,
                 hash_oid |-> OidHash, hash_params |-> <<>>, cipher_oid |-> OidAead,
                 enc_key |-> RsaEncrypt(RecipientPair, random_vec(0, KeyLen)),
                 nonce |-> random_vec(1, ChaCha_Nonce_Size)]
    IN  { same,
          [same EXCEPT !.fname = <<>>],
          [same EXCEPT !.fname = <<>>, !.cipher_oid = OidOtherAead],
          [same EXCEPT !.sign_algo = <<83, 50>>],
          [same EXCEPT !.sign_algo = <<>>],
          [same EXCEPT !.pk_oid = OidRsaOtherPadding],
          [same EXCEPT !.hash_oid = OidOtherHash],
          [same EXCEPT !.hash_params = <<5, 0>>],
          [same EXCEPT !.cipher_oid = OidOtherAead],
          [same EXCEPT !.nonce = random_vec(1, ChaCha_Nonce_Size - 1)] }

\* the input is a pack of another sender who holds the signing key: Header-1 of
\* its own fields, Header-2 its signature over that Header-1, no payload
OtherPack ==
    /\ op = "none"
    /\ ~fs["pack"].exists
    /\ tampered = 0
    /\ \E v \in OtherSenders :
          fs' = [fs EXCEPT !["pack"] =
                    NewFile(OtherHeader1(v)
                              \o Header2DER(<<SignerPair>> \o OtherHeader1(v)))]
    /\ tampered' = -2
    /\ UNCHANGED <<op, pc, ret, err, steps, overwrite, data_fname, rng, aead, outFail, jcalls>>
    /\ UNCHANGED <<consumer, ncall, nret, process, lib_calls>>
    /\ UNCHANGED <<keyVars, hdrVars, cntVars>>

(***************************************************************************)
(* checkSignThenDecrypt_RSA1 (Crypto1.cpp:206-506).                        *)
(***************************************************************************)
\* the call, on whatever the pack path holds; the output path holds any of PreFiles
DecCall ==
    /\ \/ op = "none"
       \/ op = "enc" /\ pc = "done"
    /\ \E pre \in PreFiles, ow \in BOOLEAN :
          /\ fs' = [fs EXCEPT !["out"] = pre]
          /\ overwrite' = ow
    /\ op' = "dec"
    /\ pc' = "guard"
    /\ CallLocals
    /\ UNCHANGED <<rng, envVars>>

DecGuard == op = "dec" /\ \E opened \in BOOLEAN : Guard(opened)

\* lines 234-241: the key files hold the right keys or a stranger's
DecLoadKeys ==
    /\ op = "dec"
    /\ pc = "load_keys"
    /\ \E r \in {"ok", "pub_null", "pub_throw", "sec_null", "sec_throw"} :
          CASE r = "ok" ->
                 /\ Goto("snoop")
                 /\ signKey' \in {SignerPair, 3}
                 /\ cryptKey' \in {RecipientPair, 3}
                 /\ fs' = fs
            [] r \in {"pub_null", "sec_null"} ->
                 /\ ReturnFalse("KeyLoadError", FALSE)
                 /\ UNCHANGED keyVars
            [] OTHER ->
                 /\ DecCaught("Exception")
                 /\ UNCHANGED keyVars
    /\ UNCHANGED <<op, lib_calls, overwrite, rng, aead, outFail, hdrVars, cntVars, envVars>>

\* lines 255-296: phase A, package_magic and header1_size from the head of the input
DecSnoop ==
    /\ op = "dec"
    /\ pc = "snoop"
    /\ LET h == SnoopHeader1(fs[InPath].data)
       IN  IF ~fs[InPath].exists
           THEN \* DataSource_Stream throws, caught at line 499
                DecCaught("Exception") /\ UNCHANGED header1_size
           ELSE IF ~h.ok
           THEN ReturnFalse("DerDecodeError", TRUE) /\ UNCHANGED header1_size
           ELSE IF h.package_magic = <<>> \/ h.package_magic # package_magic
           THEN ReturnFalse("BadMagic", TRUE) /\ UNCHANGED header1_size
           ELSE IF Len(h.header1_size_buffer) # 4
           THEN ReturnFalse("BadHeaderSize", TRUE) /\ UNCHANGED header1_size
           ELSE /\ Goto("header")
                /\ header1_size' = get_uint32(h.header1_size_buffer)
                /\ fs' = fs
    /\ UNCHANGED <<op, lib_calls, overwrite, rng, aead, outFail, header_buffer, hdr>>
    /\ UNCHANGED <<keyVars, cntVars, envVars>>

\* lines 298-354: phase B, header1_size bytes from offset 0, Header-2 behind them,
\* the signature checked over the bytes read
DecHeader ==
    /\ op = "dec"
    /\ pc = "header"
    /\ LET input == fs[InPath].data
           buf == VerifiedImage(input, header1_size)
           h1 == DecodeHeader1(SubSeq(input, 1, header1_size))
           h2 == DecodeHeader2(SubSeq(input, header1_size + 1, Len(input)))
       IN  IF Len(input) < header1_size
           THEN /\ ReturnFalse("ShortRead", TRUE)
                /\ UNCHANGED <<header_buffer, hdr, inPos, lib_calls>>
           ELSE IF ~h1.ok \/ ~h2.ok
           THEN /\ ReturnFalse("DerDecodeError", TRUE)
                /\ header_buffer' = buf
                /\ UNCHANGED <<hdr, inPos, lib_calls>>
           ELSE IF ~check_signature(signKey, buf, h2.signature)
           THEN /\ ReturnFalse("SignatureMismatch", TRUE)
                /\ header_buffer' = buf
                /\ hdr' = h1
                /\ lib_calls' = Append(lib_calls, <<"check_signature", FALSE>>)
                /\ UNCHANGED inPos
           ELSE /\ Goto("filename")
                /\ header_buffer' = buf
                /\ hdr' = h1
                /\ lib_calls' = Append(lib_calls, <<"check_signature", TRUE>>)
                /\ inPos' = header1_size + h2.consumed
                /\ fs' = fs
    /\ UNCHANGED <<op, overwrite, rng, aead, outFail, header1_size, in_bytes_total,
                   out_bytes_header, out_bytes_payload>>
    /\ UNCHANGED <<keyVars, envVars>>

\* a run that takes a header with no data_filename
DecFilename_NotLookedAt ==
    /\ op = "dec"
    /\ pc = "filename"
    /\ Goto("validate")
    /\ fs' = fs
    /\ UNCHANGED <<op, lib_calls, overwrite, rng, aead, outFail, keyVars, hdrVars, cntVars, envVars>>

\* lines 356-364: an empty data_filename is refused
DecFilename ==
    /\ op = "dec"
    /\ pc = "filename"
    /\ IF hdr.filename = <<>>
       THEN ReturnFalse("UnknownFilename", TRUE)
       ELSE Goto("validate") /\ fs' = fs
    /\ UNCHANGED <<op, lib_calls, overwrite, rng, aead, outFail, keyVars, hdrVars, cntVars, envVars>>

\* lines 369-436: the algorithm names of Header-1 against the configured ones
DecValidate ==
    /\ op = "dec"
    /\ pc = "validate"
    /\ LET hash_algo_id == DecodeAlgId((StartSequence(hdr.pk_alg_params)).val)
           hash_algo == oid2str_or_empty(hash_algo_id.oid)
           cipher_algo == oid2str_or_empty(hdr.cipher_algo_oid)
       IN  IF hdr.sign_algo = <<>> \/ hdr.sign_algo # rsa_sign_algo
           THEN ReturnFalse("SignAlgoMismatch", TRUE)
           ELSE IF oid2str_or_empty(hdr.pk_alg_oid) # padding_combo
           THEN ReturnFalse("PkAlgoMismatch", TRUE)
           ELSE IF ~(StartSequence(hdr.pk_alg_params)).ok \/ ~hash_algo_id.ok
           THEN \* BER_Decoder(...).decode(hash_algo_id) throws, caught at line 499
                DecCaught("Exception")
           ELSE IF hash_algo = "" \/ hash_algo # rsa_hash_algo
           THEN ReturnFalse("HashAlgoMismatch", TRUE)
           ELSE IF hash_algo_id.parameters # <<>>
           THEN ReturnFalse("HashParameters", TRUE)
           ELSE IF cipher_algo = "" \/ cipher_algo # aead_cipher_algo
           THEN ReturnFalse("CipherAlgoMismatch", TRUE)
           ELSE Goto("aead_init") /\ fs' = fs
    /\ UNCHANGED <<op, lib_calls, overwrite, rng, aead, outFail, keyVars, hdrVars, cntVars, envVars>>

\* lines 438-453: the AEAD, the file key by decrypt_or_random, key, associated data, nonce
DecAeadInit ==
    /\ op = "dec"
    /\ pc = "aead_init"
    /\ \E r \in {"ok", "no_aead"} :
          IF r = "no_aead"
          THEN \* create_or_throw throws, caught at line 499
               /\ DecCaught("Exception")
               /\ UNCHANGED <<aead, rng, lib_calls>>
          ELSE LET file_key == decrypt_or_random(cryptKey, hdr.encrypted_key, KeyLen, rng)
                   started == Len(hdr.nonce) = ChaCha_Nonce_Size
               IN  /\ rng' = rng + 1
                   /\ lib_calls' = Append(lib_calls, <<"decrypt_or_random", TRUE>>)
                                      \o AeadSetupCalls(started)
                   /\ IF started
                      THEN /\ Goto("payload")
                           /\ aead' = AeadStart(file_key, hdr.encrypted_key, hdr.nonce)
                           /\ fs' = fs
                      ELSE \* start(nonce) throws on the nonce length, caught at line 499
                           /\ DecCaught("Exception")
                           /\ aead' = [NoAead EXCEPT !.key = file_key,
                                                     !.ad = hdr.encrypted_key]
    /\ UNCHANGED <<op, overwrite, outFail, keyVars, hdrVars, cntVars, envVars>>

\* lines 456-477: read_stream hands one chunk of the rest of the input to consume_data
DecChunk ==
    /\ op = "dec"
    /\ pc = "payload"
    /\ \E wok \in BOOLEAN :
          LET input == fs[InPath].data
              data == NextChunk(input, inPos)
              final == ChunkIsFinal(input, inPos)
              u == DecUpdate(aead, data)
              f == DecFinish(aead, data)
          IN  IF AeadCall(final) = "finish" /\ ~f.ok
              THEN \* finish() throws, caught at line 499
                   /\ DecCaught("TagMismatch")
                   /\ aead' = f.aead
                   /\ lib_calls' = Append(lib_calls, <<"finish", final>>)
                   /\ UNCHANGED <<outFail, inPos, in_bytes_total, out_bytes_payload>>
              ELSE LET r == IF AeadCall(final) = "finish" THEN f ELSE u
                   IN  /\ aead' = r.aead
                       /\ lib_calls' = Append(lib_calls, <<AeadCall(final), final>>)
                       /\ fs' = Written(OutPath, r.data, wok)
                       /\ outFail' = (outFail \/ ~wok)
                       /\ out_bytes_payload' = out_bytes_payload + Len(r.data)
                       /\ inPos' = inPos + Len(data)
                       /\ in_bytes_total' = in_bytes_total + Len(data)
                       /\ Goto(IF final THEN "end" ELSE "payload")
    /\ UNCHANGED <<op, overwrite, rng, out_bytes_header, keyVars, hdrVars, envVars>>

\* lines 479-505: the check of the read and of the output stream, the return
DecEnd ==
    /\ op = "dec"
    /\ pc = "end"
    /\ IF in_bytes_total < 0 \/ outFail
       THEN ReturnFalse("OutputWriteError", TRUE)
       ELSE /\ pc' = "done"
            /\ ret' = "true"
            /\ steps' = Append(steps, pc)
            /\ UNCHANGED <<err, fs>>
    /\ UNCHANGED <<op, lib_calls, overwrite, rng, aead, outFail, keyVars, hdrVars, cntVars, envVars>>

NextDec == DecCall \/ DecGuard \/ DecLoadKeys \/ DecSnoop \/ DecHeader \/ DecFilename
              \/ DecValidate \/ DecAeadInit \/ DecChunk \/ DecEnd

Next == NextEnc \/ Tamper \/ Recode \/ OtherPack \/ NextDec

Spec == Init /\ [][Next]_vars

\* the steps of a call that has begun: straight-line code of one thread and the
\* reads of the IO driver, each taken once it is reached
Running ==
    \/ EncGuard \/ EncLoadKeys \/ EncAeadInit \/ EncHeader1 \/ EncHeader2 \/ EncChunk \/ EncEnd
    \/ DecGuard \/ DecLoadKeys \/ DecSnoop \/ DecHeader \/ DecFilename \/ DecValidate
    \/ DecAeadInit \/ DecChunk \/ DecEnd

\* what the steps of Running have in common and no other step of Next has: taken in
\* a call that has begun and not returned, each appends its place to steps
Step == op # "none" /\ pc # "done" /\ steps' = Append(steps, pc)

\* the pipelines under a scheduler that lets the thread of a call that has begun go
\* on until the call returns
SpecFair == Init /\ [][Next]_vars /\ WF_steps(Step)

(***************************************************************************)
(* JNICipherpackListener (CipherpackListener.cxx:43-161): the listener of   *)
(* native code that forwards each call to the Java consumer.  Every method  *)
(* is declared noexcept and ends with java_exception_check_and_throw, which *)
(* throws when the consumer left an exception pending.                      *)
(***************************************************************************)
\* listener calls made in one behaviour
MaxCalls == 2

\* what a null byte[] reference is to the consumer
NullArray == <<-1>>

\* the chunks handed to contentProcessed
ChunkData == {Plain(n) : n \in 0..buffer_size}

\* the consumer's callback raises: its own exception, or the NullPointerException of
\* writing into a byte[] reference that is null
Raises(c) == consumer = "throws" \/ (consumer = "mutates" /\ c.data = NullArray)

\* the call as the consumer holds it when its callback is over: the byte[] it was
\* given as it left it
Held(c) ==
    IF consumer = "mutates" /\ c.data # NullArray
    THEN [c EXCEPT !.data = [i \in 1..Len(c.data) |-> (c.data[i] + 1) % 256]]
    ELSE c

\* a void method: the consumer gets the call c; its exception, thrown on in a
\* noexcept function, is std::terminate
Forward(native, c) ==
    /\ process = "running"
    /\ Len(jcalls) < MaxCalls
    /\ ncall' = native
    /\ jcalls' = Append(jcalls, Held(c))
    /\ IF Raises(c)
       THEN process' = "terminated" /\ nret' = "none"
       ELSE process' = process /\ nret' = "void"
    /\ UNCHANGED <<fs, op, pc, ret, err, steps, overwrite, data_fname, rng, aead, outFail,
                   tampered, consumer, lib_calls>>
    /\ UNCHANGED <<keyVars, hdrVars, cntVars>>

\* a boolean method: as Forward, and JNI_TRUE == res is returned
ForwardBool(native, c, res) ==
    /\ process = "running"
    /\ Len(jcalls) < MaxCalls
    /\ ncall' = native
    /\ jcalls' = Append(jcalls, Held(c))
    /\ IF Raises(c)
       THEN process' = "terminated" /\ nret' = "none"
       ELSE process' = process /\ nret' = (IF res THEN "true" ELSE "false")
    /\ UNCHANGED <<fs, op, pc, ret, err, steps, overwrite, data_fname, rng, aead, outFail,
                   tampered, consumer, lib_calls>>
    /\ UNCHANGED <<keyVars, hdrVars, cntVars>>

\* lines 78-86
notifyError ==
    /\ process = "running"
    /\ \E decrypt_mode \in BOOLEAN :
           LET c == Call("notifyError", decrypt_mode, FALSE, <<>>, FALSE, FALSE, FALSE)
           IN  Forward(c, c)

\* lines 93-104
notifyHeader ==
    /\ process = "running"
    /\ \E decrypt_mode \in BOOLEAN, verified \in BOOLEAN :
           LET c == Call("notifyHeader", decrypt_mode, FALSE, <<>>, FALSE, verified, FALSE)
           IN  Forward(c, c)

\* lines 106-115
notifyProgress ==
    /\ process = "running"
    /\ \E decrypt_mode \in BOOLEAN :
           LET c == Call("notifyProgress", decrypt_mode, FALSE, <<>>, FALSE, FALSE, FALSE)
           IN  Forward(c, c)

\* lines 117-128
notifyEnd ==
    /\ process = "running"
    /\ \E decrypt_mode \in BOOLEAN, success \in BOOLEAN :
           LET c == Call("notifyEnd", decrypt_mode, FALSE, <<>>, FALSE, FALSE, success)
           IN  Forward(c, c)

\* lines 130-139
getSendContent ==
    /\ process = "running"
    /\ \E decrypt_mode \in BOOLEAN :
           LET c == Call("getSendContent", decrypt_mode, FALSE, <<>>, FALSE, FALSE, FALSE)
           IN  ForwardBool(c, c, consumer # "silent")

\* lines 141-160: CallBooleanMethod is given three arguments, decrypt_mode, jdata and
\* is_final, for the method of signature (ZZ[BZ)Z, which takes four.  The JVM reads
\* four: the first is decrypt_mode; the boolean is_header is read from the place of
\* jdata, the byte[] from the place of is_final, the boolean is_final from a place
\* nothing was put into.  Either the consumer is entered with what was found there,
\* the array reference being none of a byte[], or the JVM stops on that reference.
contentProcessed ==
    /\ process = "running"
    /\ \E decrypt_mode \in BOOLEAN, is_header \in BOOLEAN, data \in ChunkData, is_final \in BOOLEAN :
           LET native == Call("contentProcessed", decrypt_mode, is_header, data, is_final,
                              FALSE, FALSE)
           IN  \/ \E got_is_header \in BOOLEAN, got_is_final \in BOOLEAN :
                     ForwardBool(native,
                                 Call("contentProcessed", decrypt_mode, got_is_header, NullArray,
                                      got_is_final, FALSE, FALSE),
                                 consumer # "abort")
               \/ /\ process = "running"
                  /\ Len(jcalls) < MaxCalls
                  /\ ncall' = native
                  /\ process' = "terminated"
                  /\ nret' = "none"
                  /\ UNCHANGED <<fs, op, pc, ret, err, steps, overwrite, data_fname, rng, aead,
                                 outFail, tampered, jcalls, consumer, lib_calls>>
                  /\ UNCHANGED <<keyVars, hdrVars, cntVars>>

NextJni == notifyError \/ notifyHeader \/ notifyProgress \/ notifyEnd \/ getSendContent
              \/ contentProcessed

InitJni == InitWith({Name(1)}, {Plain(0)}, Consumers)

SpecJni == InitJni /\ [][NextJni]_vars

(***************************************************************************)
(* The encrypt pipeline alone, over names long enough for every DER length *)
(* form of Header-1.                                                       *)
(***************************************************************************)
\* longest data_fname of the header specification, in bytes
MaxLongNameLen == 215

InitLong == InitWith({Name(n) : n \in 1..MaxLongNameLen}, {Plain(0), Plain(1)}, {"continue"})

SpecLong == InitLong /\ [][NextEnc]_vars

(***************************************************************************)
(* What the claims speak of.                                               *)
(***************************************************************************)
Done == pc = "done"
Failed == Done /\ ret = "false"
Succeeded == Done /\ ret = "true"

\* the run failed behind the overwrite guard
FailedPastGuard == Failed /\ err \notin {"OutputExists", "RemoveFailed"}

\* the Header-1 a successful encrypt run of the behaviour puts into the pack:
\* the first two draws of the RNG are its file key and nonce
SentHeader1 ==
    Header1Pass2(data_fname, 1, 0,
                 RsaEncrypt(RecipientPair, random_vec(0, KeyLen)),
                 random_vec(1, ChaCha_Nonce_Size))

SentFields ==
    Header1Fields(put_uint32(Len(SentHeader1)), data_fname, 1, 0,
                  RsaEncrypt(RecipientPair, random_vec(0, KeyLen)),
                  random_vec(1, ChaCha_Nonce_Size))

\* the indexes in SentHeader1 of the value octets of its k-th field, an octet string
\* (3 data_filename, 6 sign_algo_name, 9 encrypted_key, 10 nonce)
ValueRange(k) ==
    LET tail == Len(Concat(SubSeq(SentFields, k, 10)))
        val == (ReadTLV(SentFields[k])).val
        first == Len(SentHeader1) - tail + (Len(SentFields[k]) - Len(val)) + 1
    IN  first .. (first + Len(val) - 1)

\* a decrypt run on a pack with one bit of its Header-1 inverted got to read it
FlippedHeader1Read ==
    /\ op = "dec"
    /\ Done
    /\ tampered \in 1..Len(SentHeader1)
    /\ err \notin {"OutputExists", "RemoveFailed", "OutputOpenError", "KeyLoadError"}
    /\ ~(err = "Exception" /\ steps[Len(steps)] = "load_keys")

\* C1: every run that fails behind the overwrite guard leaves no file at the output path
C1_NoOutputAfterFailure == FailedPastGuard => ~fs[OutPath].exists

\* C2: with the output present and overwrite false the guard returns false with
\* OutputExists at once, and the file system is as it was: the file is not removed,
\* truncated or written, and no other step of the operation has run
C2_GuardKeepsExistingOutput ==
    [][(pc = "guard" /\ fs[OutPath].exists /\ ~overwrite)
         => (Failed' /\ err' = "OutputExists" /\ fs' = fs /\ steps' = <<"guard">>)]_vars

C2_Witness ==
    /\ Failed
    /\ err = "OutputExists"
    /\ steps = <<"guard">>
    /\ fs[OutPath] = OldFile(TRUE)

\* C3 as stated: a decrypt run on a pack with one bit of Header-1 inverted fails with
\* SignatureMismatch and has written no payload byte
C3_FlipIsSignatureMismatch ==
    FlippedHeader1Read => (Failed /\ err = "SignatureMismatch" /\ out_bytes_payload = 0)

\* C3 amended: such a run fails at the signature check or at a check before it (magic,
\* size field, short read, DER decoding), has written no payload byte and leaves no
\* output; it is SignatureMismatch when the bit is in the value octets of
\* data_filename, sign_algo_name, encrypted_key or nonce
C3_FlipFailsBeforePayload ==
    FlippedHeader1Read =>
        /\ Failed
        /\ err \in {"DerDecodeError", "BadMagic", "BadHeaderSize", "ShortRead",
                    "SignatureMismatch"}
        /\ out_bytes_payload = 0
        /\ ~fs["out"].exists
        /\ (tampered \in (ValueRange(3) \cup ValueRange(6) \cup ValueRange(9)
                             \cup ValueRange(10))
               => err = "SignatureMismatch")

C3_Witness ==
    /\ FlippedHeader1Read
    /\ tampered \in ValueRange(9)
    /\ signKey = SignerPair
    /\ cryptKey = RecipientPair
    /\ err = "SignatureMismatch"

\* C4: a decrypt run whose AEAD finish fails returns false and leaves no output file,
\* also after plaintext of earlier chunks was written
C4_TagFailureRemovesOutput ==
    (op = "dec" /\ Done /\ err = "TagMismatch") => (ret = "false" /\ ~fs["out"].exists)

C4_Witness ==
    /\ op = "dec"
    /\ Failed
    /\ err = "TagMismatch"
    /\ out_bytes_payload > 0
    /\ ~fs["out"].exists

\* C5: a decrypt run with a stranger's private key that has initialised its AEAD got
\* a key from the unwrap without an error, and ends at AEAD finish: TagMismatch,
\* false, no output file
C5_WrongKeyFailsAtFinish ==
    (op = "dec" /\ cryptKey = 3 /\ aead.started)
        => /\ Len(aead.key) = KeyLen
           /\ pc \in {"payload", "done"}
           /\ Done => (ret = "false" /\ err = "TagMismatch" /\ ~fs["out"].exists)

C5_Witness ==
    /\ op = "dec"
    /\ cryptKey = 3
    /\ signKey = SignerPair
    /\ tampered = 0
    /\ Failed
    /\ err = "TagMismatch"
    /\ steps[Len(steps)] = "payload"
    /\ out_bytes_payload > 0

\* a decrypt run with the right keys on the untouched pack of a successful encrypt
\* run, that no failure of its environment (output, key files, AEAD lookup) ended
HonestDecryptDone ==
    /\ op = "dec"
    /\ Done
    /\ tampered = 0
    /\ signKey = SignerPair
    /\ cryptKey = RecipientPair
    /\ "header" \in {steps[i] : i \in 1..Len(steps)}
    /\ err \notin {"OutputWriteError", "Exception"}

\* C6: encrypt then decrypt succeeds, the output equals the plaintext, and the decoded
\* data_filename, payload_version and payload_version_parent are the encoded ones
C6_RoundTrip ==
    HonestDecryptDone =>
        /\ ret = "true"
        /\ fs["out"].exists
        /\ fs["out"].data = fs["plain"].data
        /\ hdr.filename = data_fname
        /\ hdr.payload_version = 1
        /\ hdr.payload_version_parent = 0

\* C7: once Header-1 is written, the four octets of its header1_size field are,
\* little-endian, the number of bytes of the Header-1 SEQUENCE in the output
C7_Header1SizeField ==
    (op = "enc" /\ pc = "header2" /\ ~outFail) =>
        LET h == SnoopHeader1(fs["pack"].data)
        IN  /\ h.ok
            /\ Len(h.header1_size_buffer) = 4
            /\ get_uint32(h.header1_size_buffer) = Len(fs["pack"].data)
            /\ (StartSequence(fs["pack"].data)).rest = <<>>
            /\ header1_size = Len(fs["pack"].data)

C7_Witness ==
    /\ op = "enc"
    /\ pc = "header2"
    /\ ~outFail
    /\ Len(fs["pack"].data) > 256
    /\ get_uint32((SnoopHeader1(fs["pack"].data)).header1_size_buffer) = Len(fs["pack"].data)

\* C9: a failed run has given the listener notifyError once, then notifyEnd with
\* success false once, and nothing else
C9_FailureNotifiesListener ==
    Failed => jcalls = << [method |-> "notifyError"],
                          [method |-> "notifyEnd", success |-> FALSE] >>

\* C10: a successful run has given the listener notifyHeader once, then notifyProgress
\* any number of times, then notifyEnd with success true once, and never notifyError
C10_SuccessNotifiesListener ==
    Succeeded =>
        /\ Len(jcalls) >= 2
        /\ jcalls[1] = [method |-> "notifyHeader"]
        /\ jcalls[Len(jcalls)] = [method |-> "notifyEnd", success |-> TRUE]
        /\ \A i \in 2..(Len(jcalls) - 1) : jcalls[i] = [method |-> "notifyProgress"]

\* the AEAD calls among the library calls of the running operation
AeadCalls == SelectSeq(lib_calls, LAMBDA c : c[1] \in {"update", "finish"})

\* C11: a decrypt run under a consumer whose contentProcessed answers false, once it
\* has processed a payload chunk, has stopped at that chunk: one AEAD call only, the
\* return false with ListenerAbort, no output file
C11_AbortStopsOperation ==
    (op = "dec" /\ Done /\ consumer = "abort" /\ AeadCalls # <<>>)
        => /\ Failed
           /\ err = "ListenerAbort"
           /\ Len(AeadCalls) = 1
           /\ ~fs["out"].exists

\* C12: the consumer's contentProcessed is entered with the four arguments of the
\* native call: decrypt_mode, is_header, data, is_final
C12_AllArgumentsDelivered ==
    (ncall.method = "contentProcessed" /\ nret # "none")
        => /\ jcalls # <<>>
           /\ jcalls[Len(jcalls)] = ncall

\* C13: an exception of the consumer in a callback leaves the process running, the
\* caller of the listener method holding an error
C13_ConsumerExceptionIsPipelineError ==
    (consumer = "throws" /\ jcalls # <<>>) => (process = "running" /\ nret = "error")

\* C14: in a successful run of either operation the AEAD calls are updates, each on a
\* chunk that was not final, and then one finish, on the chunk that was final
C14_UpdatesThenOneFinish ==
    Succeeded =>
        /\ AeadCalls # <<>>
        /\ AeadCalls[Len(AeadCalls)] = <<"finish", TRUE>>
        /\ \A i \in 1..(Len(AeadCalls) - 1) : AeadCalls[i] = <<"update", FALSE>>

C14_Witness ==
    /\ op = "dec"
    /\ Succeeded
    /\ AeadCalls = << <<"update", FALSE>>, <<"finish", TRUE>> >>

\* C15: with an input of no bytes, a successful encrypt run has made one AEAD call,
\* finish, and written the tag and nothing else behind the two headers; the decrypt
\* run on that pack with the right keys makes one AEAD call, finish, and returns true
\* with an empty output file
C15_EmptyPayload ==
    /\ (op = "enc" /\ Succeeded /\ tampered = 0 /\ fs["plain"].data = <<>>)
          => /\ AeadCalls = << <<"finish", TRUE>> >>
             /\ out_bytes_payload = TagSize
             /\ Len(fs["pack"].data) = out_bytes_header + TagSize
             /\ SubSeq(fs["pack"].data, out_bytes_header + 1, Len(fs["pack"].data))
                  = AeadTag(aead)
    /\ (HonestDecryptDone /\ fs["plain"].data = <<>>)
          => /\ ret = "true"
             /\ AeadCalls = << <<"finish", TRUE>> >>
             /\ fs["out"].exists
             /\ fs["out"].data = <<>>

C15_Witness ==
    /\ HonestDecryptDone
    /\ fs["plain"].data = <<>>
    /\ Len(fs["pack"].data) > TagSize
    /\ ret = "true"
    /\ fs["out"] = NewFile(<<>>)

\* whether p is the beginning of s
IsPrefix(p, s) == Len(p) <= Len(s) /\ SubSeq(s, 1, Len(p)) = p

\* what a running or successful encrypt run has handed to the sink so far: Header-1
\* once written, Header-2 once written, the ciphertext of the input consumed, the tag
\* once finish has run
SinkSoFar ==
    LET h1 == Header1Pass2(data_fname, 1, 0, aead.ad, aead.nonce)
        h2 == Header2DER(sign_message(signKey, h1))
        ct == AeadEncBytes(AeadStart(aead.key, aead.ad, aead.nonce),
                           SubSeq(fs["plain"].data, 1, inPos))
    IN  CASE pc \in {"guard", "load_keys", "aead_init", "header1"} -> <<>>
          [] pc = "header2" -> h1
          [] aead.finished -> h1 \o h2 \o ct \o AeadTag(aead)
          [] OTHER -> h1 \o h2 \o ct

\* an encrypt run past its key loading, or returned with true, its pack untouched
EncRunning ==
    /\ op = "enc"
    /\ tampered = 0
    /\ pc \in {"header1", "header2", "payload", "end"} \/ Succeeded

\* C16: while encryptThenSign_RSA1 runs and when it has returned true, the output
\* holds Header-1, Header-2, the ciphertext chunks in input order and the tag, in this
\* order with nothing in between: all of what was handed to the sink so far, or its
\* beginning when a write failed; no payload byte is there before Header-2 is
C16_SinkOrder ==
    EncRunning =>
        /\ IsPrefix(fs["pack"].data, SinkSoFar)
        /\ ~outFail => fs["pack"].data = SinkSoFar
        /\ pc \in {"header1", "header2"} => out_bytes_payload = 0 /\ inPos = 0
        /\ Succeeded => (aead.finished /\ inPos = Len(fs["plain"].data))

C16_Witness ==
    /\ op = "enc"
    /\ Succeeded
    /\ tampered = 0
    /\ Len(fs["plain"].data) > buffer_size
    /\ fs["pack"].data = SinkSoFar
    /\ Len(AeadCalls) = 2

\* the check_signature calls of the running operation
SignatureChecks == SelectSeq(lib_calls, LAMBDA c : c[1] = "check_signature")

\* C17: when checkSignThenDecrypt_RSA1 has asked the verifier, the bytes it gave it are
\* the first header1_size bytes of the input as they are there, and the answer is the
\* verifier's on those bytes and the signature of Header-2
C17_VerifierGetsBytesRead ==
    (op = "dec" /\ SignatureChecks # <<>>) =>
        LET input == fs["pack"].data
            h2 == DecodeHeader2(SubSeq(input, header1_size + 1, Len(input)))
        IN  /\ header1_size <= Len(input)
            /\ header_buffer = SubSeq(input, 1, header1_size)
            /\ SignatureChecks
                 = << <<"check_signature", check_signature(signKey, SubSeq(input, 1, header1_size),
                                                           h2.signature)>> >>

\* a pack whose Header-1 is not the DER encoding of its fields was read, and refused
C17_Witness ==
    /\ op = "dec"
    /\ tampered = -1
    /\ signKey = SignerPair
    /\ SignatureChecks = << <<"check_signature", FALSE>> >>
    /\ header_buffer = SubSeq(fs["pack"].data, 1, header1_size)
    /\ header_buffer # Header1DER(hdr.header1_size_buffer, hdr.filename, hdr.payload_version,
                                  hdr.payload_version_parent, hdr.encrypted_key, hdr.nonce)
    /\ err = "SignatureMismatch"

\* C18: the signature encryptThenSign_RSA1 has put into Header-2 verifies over the
\* Header-1 bytes that are in the output, whose size field holds header1_size and not
\* zero
C18_SignatureOverWrittenHeader1 ==
    (op = "enc" /\ tampered = 0 /\ ~outFail /\ pc \in {"payload", "end"}) =>
        LET pack == fs["pack"].data
            h1 == SubSeq(pack, 1, header1_size)
            h2 == DecodeHeader2(SubSeq(pack, header1_size + 1, Len(pack)))
        IN  /\ h2.ok
            /\ check_signature(signKey, h1, h2.signature)
            /\ get_uint32((SnoopHeader1(h1)).header1_size_buffer) = header1_size
            /\ header1_size > 0

C18_Witness ==
    /\ op = "enc"
    /\ tampered = 0
    /\ ~outFail
    /\ pc = "end"
    /\ in_bytes_total > buffer_size
    /\ check_signature(signKey, SubSeq(fs["pack"].data, 1, header1_size),
                       (DecodeHeader2(SubSeq(fs["pack"].data, header1_size + 1,
                                             Len(fs["pack"].data)))).signature)

\* the four ways the decoding of the headers fails
HeaderDecodeErrors == {"BadMagic", "BadHeaderSize", "ShortRead", "DerDecodeError"}

\* the headers of the input decode: magic, size field, header1_size bytes, both SEQUENCEs
HeadersDecode(input) ==
    LET h == SnoopHeader1(input)
        n == get_uint32(h.header1_size_buffer)
    IN  /\ h.ok
        /\ h.package_magic = package_magic
        /\ Len(h.header1_size_buffer) = 4
        /\ n <= Len(input)
        /\ (DecodeHeader1(SubSeq(input, 1, n))).ok
        /\ (DecodeHeader2(SubSeq(input, n + 1, Len(input)))).ok

\* C19: a decrypt run gets past the reading of the headers only when they decode;
\* else it returns false at one of the four decode failures, having called neither the
\* verifier nor the key unwrap nor the AEAD and written no output byte, and leaves no
\* output file
C19_HeaderDecodeFailure ==
    /\ (op = "dec" /\ Done /\ "snoop" \in {steps[i] : i \in 1..Len(steps)}
          /\ fs["pack"].exists /\ ~HeadersDecode(fs["pack"].data))
          => err \in HeaderDecodeErrors
    /\ (op = "dec" /\ Done /\ err \in HeaderDecodeErrors)
          => /\ ret = "false"
             /\ ~HeadersDecode(fs["pack"].data)
             /\ lib_calls = <<>>
             /\ ~aead.started
             /\ out_bytes_payload = 0
             /\ ~fs["out"].exists

C19_Witness ==
    /\ op = "dec"
    /\ Failed
    /\ err = "ShortRead"
    /\ steps = <<"guard", "load_keys", "snoop", "header">>
    /\ lib_calls = <<>>
    /\ ~fs["out"].exists

\* C20: when encryptThenSign_RSA1 has returned true, out_bytes_header is the length of
\* Header-1 plus that of Header-2, out_bytes_payload the length of the input plus the
\* tag, and their sum the number of bytes in the output
C20_Accounting ==
    (op = "enc" /\ Succeeded /\ tampered = 0) =>
        LET pack == fs["pack"].data
            h2 == DecodeHeader2(SubSeq(pack, header1_size + 1, Len(pack)))
        IN  /\ (StartSequence(SubSeq(pack, 1, header1_size))).rest = <<>>
            /\ out_bytes_header = header1_size + h2.consumed
            /\ out_bytes_payload = Len(fs["plain"].data) + TagSize
            /\ out_bytes_header + out_bytes_payload = Len(pack)

C20_Witness ==
    /\ op = "enc"
    /\ Succeeded
    /\ tampered = 0
    /\ Len(AeadCalls) = 2
    /\ out_bytes_payload > buffer_size + TagSize
    /\ out_bytes_header + out_bytes_payload = Len(fs["pack"].data)


Ran(s) == \E i \in 1..Len(steps) : steps[i] = s

\* the signature of Header-2 is the signer's over the header1_size bytes of the input
SignatureVerifies ==
    LET input == fs["pack"].data
        h2 == DecodeHeader2(SubSeq(input, header1_size + 1, Len(input)))
    IN  /\ header1_size <= Len(input)
        /\ h2.ok
        /\ h2.signature = <<signKey>> \o SubSeq(input, 1, header1_size)

\* the failures of the validation of the Header-1 fields, lines 369-436
ValidationErrors ==
    {"SignAlgoMismatch", "PkAlgoMismatch", "HashAlgoMismatch", "HashParameters",
     "CipherAlgoMismatch"}

\* C22 as stated: the Header-1 fields are validated before the signature of Header-2
\* is verified, so when the verifier has been asked the validation has been done
C22_ValidationBeforeSignature ==
    (op = "dec" /\ SignatureChecks # <<>>) => Ran("validate")

\* C22: in checkSignThenDecrypt_RSA1 the signature of Header-2 is verified first and
\* the Header-1 fields are validated after it: the validation is entered only with a
\* signature that verified, a field failure is returned only for a verified header, and
\* a header whose signature does not verify is SignatureMismatch with no field looked at
C22_ValidationAfterSignature ==
    op = "dec" =>
        /\ (pc = "validate" \/ Ran("validate") \/ err \in ValidationErrors)
              => /\ SignatureVerifies
                 /\ SignatureChecks = << <<"check_signature", TRUE>> >>
        /\ SignatureChecks = << <<"check_signature", FALSE>> >>
              => /\ ~Ran("validate")
                 /\ ~SignatureVerifies
                 /\ Done => err = "SignatureMismatch"

\* a pack whose signature verified was refused for its cipher
C22_Witness ==
    /\ op = "dec"
    /\ Failed
    /\ err = "CipherAlgoMismatch"
    /\ hdr.cipher_algo_oid = OidOtherAead
    /\ SignatureChecks = << <<"check_signature", TRUE>> >>
    /\ Ran("validate")


\* the stage of the pipeline a step belongs to: 1 Init (nothing of the pack written or
\* read yet), 2 HeaderOut/In (until the IO driver is started on the payload), 3
\* PayloadStream (the driver delivers chunks), 4 Final (the chunk with is_final has
\* been delivered), 5 Done
Stage(p) ==
    CASE p \in {"guard", "load_keys"} -> 1
      [] p = "aead_init" -> IF op = "enc" THEN 1 ELSE 2
      [] p \in {"header1", "header2", "snoop", "header", "filename", "validate"} -> 2
      [] p = "payload" -> 3
      [] p = "end" -> 4
      [] p = "done" -> 5
      [] OTHER -> 0

\* the steps taken so far and the place the run is at
Visited == IF Done THEN steps ELSE Append(steps, pc)

\* C23: a run starts in Init, goes from a stage only to the same or to the next one
\* (Init, HeaderOut/In, PayloadStream, Final), returns true only from Final; the
\* steps the thread of the call is scheduled for are those of the two operations, and
\* every run that has begun returns, true or false
C23_LinearStagesAndTermination ==
    /\ [](op # "none" =>
             /\ Stage(Visited[1]) = 1
             /\ \A i \in 1..(Len(Visited) - 1) :
                    /\ Stage(Visited[i]) <= Stage(Visited[i + 1])
                    /\ Stage(Visited[i + 1]) <= Stage(Visited[i]) + 1
             /\ Succeeded => Stage(steps[Len(steps)]) = 4
             /\ Done => ret \in {"true", "false"})
    /\ [][Step <=> Running]_vars
    /\ ((op # "none" /\ ~Done) ~> Done)

\* a decrypt run over more than one chunk went through all stages and returned true
C23_Witness ==
    /\ op = "dec"
    /\ Succeeded
    /\ Len(SelectSeq(steps, LAMBDA p : p = "payload")) > 1
    /\ {Stage(steps[i]) : i \in 1..Len(steps)} = 1..4


\* the calls made on the AEAD
AeadHistory ==
    SelectSeq(lib_calls,
              LAMBDA c : c[1] \in {"set_key", "set_associated_data", "start", "update", "finish"})

\* C24: in both pipelines the AEAD gets the key, then the associated data, then the
\* nonce, and only then update or finish; the associated data are the encrypted_key
\* bytes of Header-1 (written on the encrypt side, decoded on the decrypt side), the
\* wrap of the key the AEAD holds on the encrypt side, and for a pack that arrives as
\* sent the decrypt side binds the bytes the encrypt side bound
C24_KeyThenAssociatedDataThenNonce ==
    LET h1 == DecodeHeader1(SubSeq(fs["pack"].data, 1, header1_size))
        names == [i \in 1..Len(AeadHistory) |-> AeadHistory[i][1]]
    IN  /\ \A i \in 1..Len(names) :
               /\ i = 1 => names[i] = "set_key"
               /\ i = 2 => names[i] = "set_associated_data"
               /\ i = 3 => names[i] = "start"
               /\ i > 3 => names[i] \in {"update", "finish"} /\ AeadHistory[3][2]
        /\ (aead.started \/ AeadCalls # <<>>) => (Len(names) >= 3 /\ aead.started)
        /\ (op = "enc" /\ aead.started)
              => /\ aead.ad = RsaEncrypt(cryptKey, aead.key)
                 /\ (pc \in {"header2", "payload", "end"} /\ ~outFail /\ tampered = 0)
                       => (h1.ok /\ h1.encrypted_key = aead.ad /\ h1.nonce = aead.nonce)
        /\ (op = "dec" /\ aead.started)
              => /\ h1.ok
                 /\ aead.ad = h1.encrypted_key
                 /\ aead.nonce = h1.nonce
                 /\ tampered = 0
                       => aead.ad = RsaEncrypt(RecipientPair, random_vec(0, KeyLen))

\* a decrypt run of a pack as sent has processed payload on an AEAD bound to the
\* encrypted_key of its Header-1
C24_Witness ==
    /\ op = "dec"
    /\ tampered = 0
    /\ Succeeded
    /\ Len(AeadHistory) > 4
    /\ aead.ad # <<>>
    /\ aead.ad = hdr.encrypted_key


\* the decoded Header-1 names the configured algorithms: the signature scheme, RSA
\* with the padding, the hash with no parameters, the AEAD
FieldsValid ==
    /\ hdr.ok
    /\ hdr.sign_algo = rsa_sign_algo
    /\ hdr.pk_alg_oid = OidRsaPadding
    /\ hdr.pk_alg_params = DerAlgId(OidHash, <<>>)
    /\ hdr.cipher_algo_oid = OidAead

\* C25: in checkSignThenDecrypt_RSA1 the private key has been used to unwrap, the AEAD
\* has been set up, or the output opened by the run holds a byte, only when the
\* signature of Header-2 verified over the Header-1 read and every algorithm of
\* Header-1 passed its validation: no payload byte is written and no unwrap is made
\* for a header that is not verified
C25_NothingBeforeVerification ==
    (/\ op = "dec"
     /\ \/ \E i \in 1..Len(lib_calls) : lib_calls[i][1] = "decrypt_or_random"
        \/ AeadHistory # <<>>
        \/ aead # NoAead
        \/ out_bytes_payload > 0
        \/ Ran("guard") /\ err \notin {"OutputExists", "RemoveFailed"}
              /\ fs["out"].exists /\ fs["out"].data # <<>>)
        => /\ SignatureVerifies
           /\ SignatureChecks = << <<"check_signature", TRUE>> >>
           /\ FieldsValid
           /\ Ran("validate")

\* a decrypt run is in its payload, plaintext written, on a verified and valid header
C25_Witness ==
    /\ op = "dec"
    /\ pc = "payload"
    /\ out_bytes_payload > 0
    /\ fs["out"].data # <<>>
    /\ SignatureVerifies
    /\ FieldsValid


\* C26: checkSignThenDecrypt_RSA1 has returned true only on an input whose magic
\* matched, whose header1_size field had four bytes and whose header1_size bytes were
\* read, whose signature verified over those bytes, whose signature scheme, padding,
\* hash (no parameters) and AEAD are the configured ones, that was read without
\* error, whose last bytes are the tag of the payload before them, accepted by the one
\* finish, and with no write to the output having failed
C26_TrueOnlyIfAllChecksHeld ==
    (op = "dec" /\ Succeeded) =>
        LET input == fs["pack"].data
            payload == SubSeq(input, Len(input) - in_bytes_total + 1, Len(input))
            ct == SubSeq(payload, 1, Len(payload) - TagSize)
            fresh == [aead EXCEPT !.pos = 0, !.mac = 0, !.finished = FALSE]
        IN  /\ HeadersDecode(input)
            /\ (SnoopHeader1(input)).package_magic = package_magic
            /\ Len((SnoopHeader1(input)).header1_size_buffer) = 4
            /\ Len(header_buffer) = header1_size
            /\ header_buffer = SubSeq(input, 1, header1_size)
            /\ SignatureVerifies
            /\ SignatureChecks = << <<"check_signature", TRUE>> >>
            /\ hdr.filename # <<>>
            /\ FieldsValid
            /\ in_bytes_total >= 0
            /\ inPos = Len(input)
            /\ Len(payload) >= TagSize
            /\ SubSeq(payload, Len(ct) + 1, Len(payload)) = AeadTag(AeadAdvance(fresh, ct))
            /\ AeadHistory[Len(AeadHistory)] = <<"finish", TRUE>>
            /\ Len(SelectSeq(AeadHistory, LAMBDA c : c[1] = "finish")) = 1
            /\ ~outFail
            /\ fs["out"].exists

\* a decrypt run of a pack as sent, of more than one chunk, has returned true
C26_Witness ==
    /\ op = "dec"
    /\ Succeeded
    /\ tampered = 0
    /\ in_bytes_total > buffer_size
    /\ fs["out"].data = fs["plain"].data


\* C27: the guard, on an output path that exists with overwrite set, removes the
\* file and only then opens the sink (the path is then empty or, the open having
\* failed, absent), and when the file cannot be removed it returns false with the path
\* and all else as they were, nothing opened; once the guard has let a run pass, the
\* output path never holds the previous content again, whether the run goes on,
\* returns true or fails
C27_OverwriteRemovesFirst ==
    /\ [][(pc = "guard" /\ fs[OutPath].exists /\ overwrite)
            => IF fs[OutPath].removable
               THEN /\ fs'[OutPath] \in {NoFile, NewFile(<<>>)}
                    /\ fs'[OutPath] = NoFile <=> (Failed' /\ err' = "OutputOpenError")
               ELSE /\ Failed'
                    /\ err' = "RemoveFailed"
                    /\ fs' = fs
                    /\ steps' = <<"guard">>
                    /\ lib_calls' = <<>>]_vars
    /\ [](op # "none" /\ Ran("guard") /\ err \notin {"OutputExists", "RemoveFailed"}
            => ~(fs[OutPath].exists /\ IsPrefix(<<79, 76, 68>>, fs[OutPath].data)))

\* with overwrite set, the file at the output path could not be removed
C27_Witness ==
    /\ op # "none"
    /\ Failed
    /\ err = "RemoveFailed"
    /\ fs[OutPath] = OldFile(FALSE)


\* C28: checkSignThenDecrypt_RSA1, on a pack whose signature verified and whose
\* data_filename is empty, goes from the signature check to the return: false, the
\* output file removed, no algorithm validated, no key unwrapped, the AEAD untouched,
\* nothing of the payload read or written
C28_EmptyFilenameRejected ==
    (/\ op = "dec"
     /\ SignatureChecks = << <<"check_signature", TRUE>> >>
     /\ hdr.filename = <<>>)
        => /\ pc \in {"filename", "done"}
           /\ ~Ran("validate")
           /\ lib_calls = SignatureChecks
           /\ aead = NoAead
           /\ in_bytes_total = 0
           /\ out_bytes_payload = 0
           /\ Done => /\ Failed
                      /\ err = "UnknownFilename"
                      /\ steps[Len(steps)] = "filename"
                      /\ ~fs["out"].exists

\* a pack signed by the signer, with no file name and another cipher, was refused for
\* the file name
C28_Witness ==
    /\ op = "dec"
    /\ Failed
    /\ err = "UnknownFilename"
    /\ SignatureVerifies
    /\ hdr.ok
    /\ hdr.filename = <<>>
    /\ hdr.cipher_algo_oid = OidOtherAead

====
